---- MODULE Spec2Model ----
(***************************************************************************)
(* Model of the weather-data CSV cleaner (class WeatherDataCleaner).       *)
(*                                                                         *)
(* Text is modelled as sequences of byte values.  The field cleaner, the   *)
(* record parser and the record writer are operators computed the way the  *)
(* C++ computes them (find_first_not_of / substr / std::getline).  The two *)
(* engines, processFile and processFileMemoryMapped, are state machines    *)
(* run one after the other on the same input file, as main() of            *)
(* Cleaner/weather_cleaner.cpp runs them.  weather_cleaner.cpp holds the   *)
(* same cleaner, parser, writer and processFile, without the mapped        *)
(* engine.  The mapped engine is the non-Windows branch (open, fstat,      *)
(* mmap, munmap, close).                                                   *)
(***************************************************************************)
EXTENDS Integers, Sequences, FiniteSets, TLC

VARIABLES
    inputFile,      \* the input path on disk: [exists, data]
    outBuffered,    \* output path of processFile: [exists, data]
    outMapped,      \* output path of processFileMemoryMapped: [exists, data]
    pc,             \* position of main() inside the engine being run
    handles,        \* per handle: [acquired, open, releases]
    inPos,          \* processFile: get position of the input stream (0-based)
    line,           \* the engine's local `line`
    fields,         \* the engine's local `fields`
    lineStart,      \* processFileMemoryMapped: offset of lineStart from start
    lineEnd,        \* processFileMemoryMapped: offset of lineEnd from start
    scanReads,      \* offsets the last iteration's '\r' check dereferenced
    lineCount,      \* the engine's local lineCount
    retBuffered,    \* return value of processFile: "none", "true", "false"
    retMapped,      \* return value of processFileMemoryMapped
    field,          \* field cleaner harness: the raw field
    cleaned,        \* field cleaner harness: successive cleanField results
    fpc             \* field cleaner harness: position

engineVars == <<inputFile, outBuffered, outMapped, pc, handles, inPos, line,
                fields, lineStart, lineEnd, scanReads, lineCount, retBuffered,
                retMapped>>
fieldVars == <<field, cleaned, fpc>>
vars == <<inputFile, outBuffered, outMapped, pc, handles, inPos, line,
          fields, lineStart, lineEnd, scanReads, lineCount, retBuffered,
          retMapped, field, cleaned, fpc>>

----------------------------------------------------------------------------
(* Bounds of the model *)

MaxFileLen == 5
MaxFieldLen == 5

----------------------------------------------------------------------------
(* Byte values *)

TAB == 9
LF == 10
VT == 11
FF == 12
CR == 13
SPACE == 32
QUOTE == 34
COMMA == 44
DASH == 45
ZERO == 48

\* Ordinary data bytes: the letter 'a'
Letters == {97}

\* The characters trim() removes: " \t\r\n"
TrimChars == {SPACE, TAB, CR, LF}

\* std::isspace in the "C" locale
IsSpace(c) == c \in {SPACE, TAB, LF, VT, FF, CR}

\* Bytes the modelled files and fields are drawn from
FileChars == Letters \cup {COMMA, DASH, CR, LF}
FieldChars == Letters \cup {QUOTE, DASH, SPACE, CR, VT}

SeqsUpTo(S, n) == UNION {[1..k -> S] : k \in 0..n}

----------------------------------------------------------------------------
(* std::string primitives *)

\* std::string::npos, as an index no string has
npos == -1

\* str.find_first_not_of(set): 0-based index of the first byte not in set
FindFirstNotOf(str, set) ==
    LET hits == {i \in 0..(Len(str) - 1) : str[i + 1] \notin set}
    IN IF hits = {} THEN npos
       ELSE CHOOSE i \in hits : \A j \in hits : i <= j

\* str.find_last_not_of(set): 0-based index of the last byte not in set
FindLastNotOf(str, set) ==
    LET hits == {i \in 0..(Len(str) - 1) : str[i + 1] \notin set}
    IN IF hits = {} THEN npos
       ELSE CHOOSE i \in hits : \A j \in hits : i >= j

\* str.substr(pos, count) for pos <= size: count is clipped to the size
substr(str, pos, count) ==
    LET n == IF count < Len(str) - pos THEN count ELSE Len(str) - pos
    IN SubSeq(str, pos + 1, pos + n)

----------------------------------------------------------------------------
(* Field cleaner *)

\* trim with the length of the kept range off by one
trimShort(str) ==
    LET start == FindFirstNotOf(str, TrimChars)
        end == FindLastNotOf(str, TrimChars)
    IN IF start = npos THEN <<>>
       ELSE substr(str, start, end - start)

trim(str) ==
    LET start == FindFirstNotOf(str, TrimChars)
        end == FindLastNotOf(str, TrimChars)
    IN IF start = npos THEN <<>>
       ELSE substr(str, start, end - start + 1)

\* cleanField without the "--" placeholder
cleanFieldNoDoubleDash(f) ==
    LET t == trim(f)
        trimmed == IF Len(t) >= 2 /\ t[1] = QUOTE /\ t[Len(t)] = QUOTE
                   THEN substr(t, 1, Len(t) - 2)
                   ELSE t
    IN IF \/ trimmed = <<DASH>>
          \/ trimmed = <<>>
          \/ \A i \in 1..Len(trimmed) : IsSpace(trimmed[i])
       THEN <<ZERO>>
       ELSE trimmed

cleanField(f) ==
    LET t == trim(f)
        trimmed == IF Len(t) >= 2 /\ t[1] = QUOTE /\ t[Len(t)] = QUOTE
                   THEN substr(t, 1, Len(t) - 2)
                   ELSE t
    IN IF \/ trimmed = <<DASH>>
          \/ trimmed = <<DASH, DASH>>
          \/ trimmed = <<>>
          \/ \A i \in 1..Len(trimmed) : IsSpace(trimmed[i])
       THEN <<ZERO>>
       ELSE trimmed

----------------------------------------------------------------------------
(* Record parser and record writer *)

\* std::find(first, last, ch) over 0-based offsets: the offset of the first
\* ch in [first, last), or last
Find(data, first, last, ch) ==
    LET hits == {i \in first..(last - 1) : data[i + 1] = ch}
    IN IF hits = {} THEN last
       ELSE CHOOSE i \in hits : \A j \in hits : i <= j

\* The loop `while (std::getline(ss, field, ','))` from get position p.
\* getline fails, and the loop ends, when no byte is left at p; otherwise
\* it extracts up to the next ',' (consumed) or the end of the stream.
RECURSIVE parseFrom(_, _)
parseFrom(ln, p) ==
    IF p >= Len(ln) THEN <<>>
    ELSE LET e == Find(ln, p, Len(ln), COMMA)
         IN <<cleanField(SubSeq(ln, p + 1, e))>>
            \o (IF e = Len(ln) THEN <<>> ELSE parseFrom(ln, e + 1))

\* parseCSVLine pushing the raw field, not the cleaned one
parseCSVLineRaw(ln) ==
    LET RECURSIVE rawFrom(_)
        rawFrom(p) ==
            IF p >= Len(ln) THEN <<>>
            ELSE LET e == Find(ln, p, Len(ln), COMMA)
                 IN <<SubSeq(ln, p + 1, e)>>
                    \o (IF e = Len(ln) THEN <<>> ELSE rawFrom(e + 1))
    IN rawFrom(0)

parseCSVLine(ln) == parseFrom(ln, 0)

RECURSIVE joinFrom(_, _)
joinFrom(fs, i) ==
    IF i > Len(fs) THEN <<>>
    ELSE <<COMMA>> \o fs[i] \o joinFrom(fs, i + 1)

\* writeCSVLine terminating the record with "\r\n"
writeCSVLineCRLF(fs) ==
    IF fs = <<>> THEN <<>>
    ELSE fs[1] \o joinFrom(fs, 2) \o <<CR, LF>>

\* The bytes writeCSVLine appends to the output stream
writeCSVLine(fs) ==
    IF fs = <<>> THEN <<>>
    ELSE fs[1] \o joinFrom(fs, 2) \o <<LF>>

----------------------------------------------------------------------------
(* Files and handles *)

NoFile == [exists |-> FALSE, data |-> <<>>]
FileOf(d) == [exists |-> TRUE, data |-> d]

\* What an earlier run left at an output path
StaleOutput == FileOf(<<ZERO, LF>>)

HandleNames == {"input", "output", "fd", "map", "moutput"}
NoHandles == [h \in HandleNames |-> [acquired |-> 0, open |-> FALSE, releases |-> 0]]

\* A successful open / mmap
Acquire(hs, h) ==
    [hs EXCEPT ![h] = [acquired |-> @.acquired + 1, open |-> TRUE,
                       releases |-> @.releases]]

\* close(fd) / munmap(mapped, fileLength): releases whatever it is given
Release(hs, h) ==
    [hs EXCEPT ![h] = [acquired |-> @.acquired, open |-> FALSE,
                       releases |-> @.releases + 1]]

\* fstream::close() and ~fstream(): release the file only when one is open
CloseStream(hs, h) == IF hs[h].open THEN Release(hs, h) ELSE hs

----------------------------------------------------------------------------
(* processFile: buffered streaming engine *)

\* StreamOpenInput with the output stream constructed before the input
\* stream is checked
StreamOpenInputOutputFirst ==
    /\ pc = "s_open_in"
    /\ outBuffered' = FileOf(<<>>)
    /\ IF inputFile.exists
       THEN /\ handles' = Acquire(handles, "input")
            /\ inPos' = 0
            /\ pc' = "s_open_out"
            /\ UNCHANGED retBuffered
       ELSE /\ retBuffered' = "false"
            /\ pc' = "m_open"
            /\ UNCHANGED <<handles, inPos>>
    /\ UNCHANGED <<inputFile, outMapped, line, fields, lineStart, lineCount,
                   retMapped>>
    /\ UNCHANGED <<lineEnd, scanReads>>
    /\ UNCHANGED fieldVars

\* std::ifstream input(inputPath); if (!input.is_open()) return false;
\* The output stream is not constructed yet on this return.
StreamOpenInput ==
    /\ pc = "s_open_in"
    /\ IF inputFile.exists
       THEN /\ handles' = Acquire(handles, "input")
            /\ inPos' = 0
            /\ pc' = "s_open_out"
            /\ UNCHANGED retBuffered
       ELSE /\ retBuffered' = "false"
            /\ pc' = "m_open"
            /\ UNCHANGED <<handles, inPos>>
    /\ UNCHANGED <<inputFile, outBuffered, outMapped, line, fields, lineStart,
                   lineCount, retMapped>>
    /\ UNCHANGED <<lineEnd, scanReads>>
    /\ UNCHANGED fieldVars

\* ~ofstream() and ~ifstream() of the locals `output` and `input`, run at
\* every return that follows their construction
StreamDestructors(hs) == CloseStream(CloseStream(hs, "output"), "input")

\* std::ofstream output(outputPath); if (!output.is_open()) return false;
\* On the failure return the input stream is closed by its destructor.
StreamOpenOutput ==
    /\ pc = "s_open_out"
    /\ \E creatable \in BOOLEAN :
         IF creatable
         THEN /\ outBuffered' = FileOf(<<>>)
              /\ handles' = Acquire(handles, "output")
              /\ lineCount' = 0
              /\ pc' = "s_loop"
              /\ UNCHANGED retBuffered
         ELSE /\ handles' = StreamDestructors(handles)
              /\ retBuffered' = "false"
              /\ pc' = "m_open"
              /\ UNCHANGED <<outBuffered, lineCount>>
    /\ line' = <<>>
    /\ fields' = <<>>
    /\ UNCHANGED <<inputFile, outMapped, inPos, lineStart, retMapped>>
    /\ UNCHANGED <<lineEnd, scanReads>>
    /\ UNCHANGED fieldVars

\* getline that fails when it meets the end of the file before a '\n'
getlineOkNeedsNewline(data, pos) == Find(data, pos, Len(data), LF) < Len(data)

\* Whether std::getline(input, line) succeeds at get position pos: it fails
\* only when no byte is left to extract
getlineOk(data, pos) == pos < Len(data)

\* One iteration of `while (std::getline(input, line))` at get position pos
\* with `out` written so far: getline extracts up to the next '\n' (consumed,
\* not stored) or the end of the file, then the line is parsed and written.
streamIteration(data, pos, out) ==
    LET e == Find(data, pos, Len(data), LF)
        ln == SubSeq(data, pos + 1, e)
        fs == parseCSVLine(ln)
    IN [line |-> ln,
        fields |-> fs,
        inPos |-> IF e = Len(data) THEN e ELSE e + 1,
        out |-> out \o writeCSVLine(fs)]

\* The whole loop of processFile from get position pos: the bytes written
RECURSIVE streamLoop(_, _, _)
streamLoop(data, pos, out) ==
    IF ~getlineOk(data, pos) THEN out
    ELSE LET it == streamIteration(data, pos, out)
         IN streamLoop(data, it.inPos, it.out)

StreamReadLine ==
    /\ pc = "s_loop"
    /\ getlineOk(inputFile.data, inPos)
    /\ LET it == streamIteration(inputFile.data, inPos, outBuffered.data)
       IN /\ line' = it.line
          /\ inPos' = it.inPos
          /\ fields' = it.fields
          /\ outBuffered' = FileOf(it.out)
    /\ lineCount' = lineCount + 1
    /\ UNCHANGED <<inputFile, outMapped, pc, handles, lineStart, retBuffered,
                   retMapped>>
    /\ UNCHANGED <<lineEnd, scanReads>>
    /\ UNCHANGED fieldVars

\* input.close(); output.close();
StreamRelease(hs) == CloseStream(CloseStream(hs, "input"), "output")

\* getline fails at the end of the file: the loop ends, both streams are
\* closed and processFile returns true.
StreamClose ==
    /\ pc = "s_loop"
    /\ ~getlineOk(inputFile.data, inPos)
    /\ handles' = StreamDestructors(StreamRelease(handles))
    /\ retBuffered' = "true"
    /\ line' = <<>>
    /\ fields' = <<>>
    /\ pc' = "m_open"
    /\ UNCHANGED <<inputFile, outBuffered, outMapped, inPos, lineStart,
                   lineCount, retMapped>>
    /\ UNCHANGED <<lineEnd, scanReads>>
    /\ UNCHANGED fieldVars

----------------------------------------------------------------------------
(* processFileMemoryMapped: mapped scan engine (the non-Windows branch) *)

\* int fd = open(inputPath, O_RDONLY); if (fd == -1) return false;
MapOpen ==
    /\ pc = "m_open"
    /\ IF inputFile.exists
       THEN /\ handles' = Acquire(handles, "fd")
            /\ pc' = "m_stat"
            /\ UNCHANGED retMapped
       ELSE /\ retMapped' = "false"
            /\ pc' = "done"
            /\ UNCHANGED handles
    /\ UNCHANGED <<inputFile, outBuffered, outMapped, inPos, line, fields,
                   lineStart, lineCount, retBuffered>>
    /\ UNCHANGED <<lineEnd, scanReads>>
    /\ UNCHANGED fieldVars

\* if (fstat(fd, &sb) == -1) { close(fd); return false; }
MapStat ==
    /\ pc = "m_stat"
    /\ \E statOk \in BOOLEAN :
         IF statOk
         THEN /\ pc' = "m_mmap"
              /\ UNCHANGED <<handles, retMapped>>
         ELSE /\ handles' = Release(handles, "fd")
              /\ retMapped' = "false"
              /\ pc' = "done"
    /\ UNCHANGED <<inputFile, outBuffered, outMapped, inPos, line, fields,
                   lineStart, lineCount, retBuffered>>
    /\ UNCHANGED <<lineEnd, scanReads>>
    /\ UNCHANGED fieldVars

\* The mapping-failure return without close(fd)
MmapFailureLeak(hs) == hs

\* if (mapped == MAP_FAILED) { close(fd); return false; }
MmapFailure(hs) == Release(hs, "fd")

\* mmap(nullptr, sb.st_size, PROT_READ, MAP_PRIVATE, fd, 0): the call can
\* fail, and it always fails for a length of zero.
MapMmap ==
    /\ pc = "m_mmap"
    /\ \E mmapOk \in BOOLEAN :
         IF mmapOk /\ Len(inputFile.data) > 0
         THEN /\ handles' = Acquire(handles, "map")
              /\ pc' = "m_open_out"
              /\ UNCHANGED retMapped
         ELSE /\ handles' = MmapFailure(handles)
              /\ retMapped' = "false"
              /\ pc' = "done"
    /\ UNCHANGED <<inputFile, outBuffered, outMapped, inPos, line, fields,
                   lineStart, lineCount, retBuffered>>
    /\ UNCHANGED <<lineEnd, scanReads>>
    /\ UNCHANGED fieldVars

\* std::ofstream output(outputPath); on failure munmap, close(fd), return
\* false; otherwise start = mapped, lineStart = start, lineCount = 0.
MapOpenOutput ==
    /\ pc = "m_open_out"
    /\ \E creatable \in BOOLEAN :
         IF creatable
         THEN /\ outMapped' = FileOf(<<>>)
              /\ handles' = Acquire(handles, "moutput")
              /\ pc' = "m_loop"
              /\ UNCHANGED retMapped
         ELSE /\ handles' = Release(Release(handles, "map"), "fd")
              /\ retMapped' = "false"
              /\ pc' = "done"
              /\ UNCHANGED outMapped
    /\ lineStart' = 0
    /\ lineCount' = 0
    /\ line' = <<>>
    /\ fields' = <<>>
    /\ UNCHANGED <<inputFile, outBuffered, inPos, retBuffered>>
    /\ UNCHANGED <<lineEnd, scanReads>>
    /\ UNCHANGED fieldVars

\* std::string line(lineStart, actualLineEnd), for lineEnd > lineStart
mappedLine(data, ls, le) ==
    LET actualLineEnd == IF le > ls /\ data[le] = CR
                         THEN le - 1
                         ELSE le
    IN SubSeq(data, ls + 1, actualLineEnd)

\* The offsets `*(actualLineEnd - 1) == '\r'` dereferences: the check runs
\* inside `if (lineEnd > lineStart)` and behind `actualLineEnd > lineStart`
crCheckReads(ls, le) == IF le > ls THEN {le - 1} ELSE {}

\* The advance without the test for the end of the buffer
nextLineStartNoEndTest(le, end) == le + 1

\* lineStart = (lineEnd == end) ? end : lineEnd + 1;
nextLineStart(le, end) == IF le = end THEN end ELSE le + 1

\* One iteration of `while (lineStart < end)` at offset ls with `out`
\* written so far; `parsed` tells whether the line was not skipped
mappedIteration(data, ls, out) ==
    LET end == Len(data)
        le == Find(data, ls, end, LF)
        ln == mappedLine(data, ls, le)
        fs == parseCSVLine(ln)
    IN [parsed |-> le > ls,
        line |-> ln,
        fields |-> fs,
        lineEnd |-> le,
        reads |-> crCheckReads(ls, le),
        lineStart |-> nextLineStart(le, end),
        out |-> IF le > ls THEN out \o writeCSVLine(fs) ELSE out]

\* The whole loop of processFileMemoryMapped from offset ls: the bytes written
RECURSIVE mappedLoop(_, _, _)
mappedLoop(data, ls, out) ==
    IF ~(ls < Len(data)) THEN out
    ELSE LET it == mappedIteration(data, ls, out)
         IN mappedLoop(data, it.lineStart, it.out)

MapScanLine ==
    /\ pc = "m_loop"
    /\ lineStart < Len(inputFile.data)
    /\ LET it == mappedIteration(inputFile.data, lineStart, outMapped.data)
       IN /\ line' = IF it.parsed THEN it.line ELSE line
          /\ fields' = IF it.parsed THEN it.fields ELSE fields
          /\ outMapped' = FileOf(it.out)
          /\ lineEnd' = it.lineEnd
          /\ scanReads' = it.reads
          /\ lineStart' = it.lineStart
    /\ lineCount' = lineCount + 1
    /\ UNCHANGED <<inputFile, outBuffered, pc, handles, inPos, retBuffered,
                   retMapped>>
    /\ UNCHANGED fieldVars

\* The loop ends: output.close(); munmap(mapped, fileLength); close(fd);
\* return true;
MapCleanup ==
    /\ pc = "m_loop"
    /\ lineStart >= Len(inputFile.data)
    /\ handles' = Release(Release(CloseStream(handles, "moutput"), "map"), "fd")
    /\ retMapped' = "true"
    /\ line' = <<>>
    /\ fields' = <<>>
    /\ pc' = "done"
    /\ UNCHANGED <<inputFile, outBuffered, outMapped, inPos, lineStart,
                   lineCount, retBuffered>>
    /\ UNCHANGED <<lineEnd, scanReads>>
    /\ UNCHANGED fieldVars

----------------------------------------------------------------------------
(* Field cleaner harness: cleanField applied to a field, then to its result *)

CleanOnce ==
    /\ fpc = "raw"
    /\ cleaned' = <<cleanField(field)>>
    /\ fpc' = "once"
    /\ UNCHANGED field
    /\ UNCHANGED engineVars

CleanAgain ==
    /\ fpc = "once"
    /\ cleaned' = Append(cleaned, cleanField(cleaned[1]))
    /\ fpc' = "twice"
    /\ UNCHANGED field
    /\ UNCHANGED engineVars

----------------------------------------------------------------------------
(* Specifications *)

EngineStart ==
    /\ pc = "s_open_in"
    /\ handles = NoHandles
    /\ inPos = 0
    /\ line = <<>>
    /\ fields = <<>>
    /\ lineStart = 0
    /\ lineEnd = 0
    /\ scanReads = {}
    /\ lineCount = 0
    /\ retBuffered = "none"
    /\ retMapped = "none"

\* main() of Cleaner/weather_cleaner.cpp: processFile, then
\* processFileMemoryMapped, on one input file and two output paths
Init ==
    /\ inputFile \in {NoFile} \cup {FileOf(d) : d \in SeqsUpTo(FileChars, MaxFileLen)}
    /\ \E prior \in {NoFile, StaleOutput} :
         /\ outBuffered = prior
         /\ outMapped = prior
    /\ EngineStart
    /\ field = <<>>
    /\ cleaned = <<>>
    /\ fpc = "off"

Next ==
    \/ StreamOpenInput
    \/ StreamOpenOutput
    \/ StreamReadLine
    \/ StreamClose
    \/ MapOpen
    \/ MapStat
    \/ MapMmap
    \/ MapOpenOutput
    \/ MapScanLine
    \/ MapCleanup

Spec == Init /\ [][Next]_vars

FieldInit ==
    /\ field \in SeqsUpTo(FieldChars, MaxFieldLen)
    /\ cleaned = <<>>
    /\ fpc = "raw"
    /\ inputFile = NoFile
    /\ outBuffered = NoFile
    /\ outMapped = NoFile
    /\ EngineStart

FieldNext ==
    \/ CleanOnce
    \/ CleanAgain

FieldSpec == FieldInit /\ [][FieldNext]_vars

----------------------------------------------------------------------------
(* Reference notions the properties are stated with *)

RECURSIVE StripLead(_)
StripLead(s) ==
    IF s # <<>> /\ Head(s) \in {SPACE, TAB, CR, LF} THEN StripLead(Tail(s)) ELSE s

RECURSIVE StripTrail(_)
StripTrail(s) ==
    IF s # <<>> /\ s[Len(s)] \in {SPACE, TAB, CR, LF}
    THEN StripTrail(SubSeq(s, 1, Len(s) - 1))
    ELSE s

QuoteEnclosed(s) == Len(s) >= 2 /\ Head(s) = QUOTE /\ s[Len(s)] = QUOTE

AllWhitespace(s) == \A i \in 1..Len(s) : s[i] \in {SPACE, TAB, LF, VT, FF, CR}

\* The field-cleaning policy, read off its description
RefClean(f) ==
    LET t == StripTrail(StripLead(f))
        u == IF QuoteEnclosed(t) THEN SubSeq(t, 2, Len(t) - 1) ELSE t
    IN IF u = <<>> \/ AllWhitespace(u) \/ u = <<DASH>> \/ u = <<DASH, DASH>>
       THEN <<ZERO>>
       ELSE u

CountOf(s, ch) == Cardinality({i \in 1..Len(s) : s[i] = ch})

\* s cut at every ch: one piece more than s has occurrences of ch
RECURSIVE SplitAt(_, _)
SplitAt(s, ch) ==
    IF CountOf(s, ch) = 0 THEN <<s>>
    ELSE LET i == CHOOSE k \in 1..Len(s) :
                      s[k] = ch /\ \A j \in 1..(k - 1) : s[j] # ch
         IN <<SubSeq(s, 1, i - 1)>> \o SplitAt(SubSeq(s, i + 1, Len(s)), ch)

\* The lines of a file: cut at '\n'; a final '\n' ends the last line and
\* starts no new one
LinesOf(data) ==
    IF data = <<>> THEN <<>>
    ELSE IF data[Len(data)] = LF THEN SplitAt(SubSeq(data, 1, Len(data) - 1), LF)
    ELSE SplitAt(data, LF)

\* The records of an output file, each as its comma-separated fields
RecordsOf(out) == [i \in 1..Len(LinesOf(out)) |-> SplitAt(LinesOf(out)[i], COMMA)]

\* Every '\r' of the file is the first byte of a "\r\n" line terminator
OnlyCRLF(data) ==
    \A i \in 1..Len(data) : data[i] = CR => (i < Len(data) /\ data[i + 1] = LF)

\* No field keeps a '\r' once its surrounding whitespace is trimmed
NoCRInsideField(data) ==
    \A i \in 1..Len(LinesOf(data)) :
        LET raw == SplitAt(LinesOf(data)[i], COMMA)
        IN \A j \in 1..Len(raw) : CountOf(StripTrail(StripLead(raw[j])), CR) = 0

BothReturned == pc = "done" /\ retBuffered = "true" /\ retMapped = "true"

----------------------------------------------------------------------------
(* C1: engine equivalence *)

\* C1: for every non-empty input whose lines end in "\n" or "\r\n" and that
\* has no other '\r', processFile and processFileMemoryMapped write
\* byte-identical output files.
C1_EnginesAgree ==
    (BothReturned /\ inputFile.data # <<>> /\ OnlyCRLF(inputFile.data))
        => outBuffered.data = outMapped.data

----------------------------------------------------------------------------
(* C2: cleanField against the cleaning policy *)

Scenario1Line ==
    <<65, COMMA, 66, COMMA, DASH, COMMA, DASH, DASH, COMMA, SPACE, SPACE, COMMA,
      QUOTE, 113, 117, 111, 116, 101, 100, QUOTE>>

Scenario1Out ==
    <<65, COMMA, 66, COMMA, ZERO, COMMA, ZERO, COMMA, ZERO, COMMA,
      113, 117, 111, 116, 101, 100, LF>>

\* C2: cleanField(f) is the policy's result for every field f (trim, strip
\* one enclosing quote pair, "0" for empty / whitespace / "-" / "--"), and
\* the line  A,B,-,--,  ,"quoted"  is written as  A,B,0,0,0,quoted.
C2_CleanFieldMatchesPolicy ==
    fpc \in {"once", "twice"} =>
        /\ cleaned[1] = RefClean(field)
        /\ writeCSVLine(parseCSVLine(Scenario1Line)) = Scenario1Out

C2_Witness ==
    /\ fpc = "once"
    /\ field = <<SPACE, QUOTE, DASH, DASH, QUOTE>>
    /\ cleaned = <<(<<ZERO>>)>>

----------------------------------------------------------------------------
(* C3: field count of a parsed line *)

\* C3: a line with k commas parses to exactly k+1 fields, and the record
\* written for it has k+1 fields.
C3_FieldCountPreserved ==
    (pc = "s_loop" /\ lineCount > 0) =>
        /\ Len(fields) = CountOf(line, COMMA) + 1
        /\ outBuffered.data # <<>>
        /\ Len(RecordsOf(outBuffered.data)[Len(RecordsOf(outBuffered.data))])
               = CountOf(line, COMMA) + 1

----------------------------------------------------------------------------
(* C4: idempotence of cleanField *)

\* C4 as claimed: cleanField(cleanField(f)) = cleanField(f) for every f.
C4_Idempotent ==
    fpc = "twice" => cleaned[2] = cleaned[1]

\* The text inside the quote pair cleanField strips from f, when that text
\* is still padded or still quoted
UnquotesToUnstable(f) ==
    LET t == StripTrail(StripLead(f))
        u == SubSeq(t, 2, Len(t) - 1)
    IN /\ QuoteEnclosed(t)
       /\ ~AllWhitespace(u)
       /\ (StripTrail(StripLead(u)) # u \/ QuoteEnclosed(u))

\* C4 amended: cleanField(cleanField(f)) = cleanField(f) exactly for the
\* fields whose stripped quote pair does not enclose text that is itself
\* padded with trim characters or enclosed in quotes.
C4_IdempotentUnlessNested ==
    fpc = "twice" => (cleaned[2] = cleaned[1] <=> ~UnquotesToUnstable(field))

C4_Witness ==
    /\ fpc = "twice"
    /\ field = <<SPACE, QUOTE, 97, QUOTE, CR>>
    /\ cleaned = <<(<<97>>), (<<97>>)>>

----------------------------------------------------------------------------
(* C5: order of records and of fields *)

\* Record r is made of the cleaned leading fields of line ln, in order
RecordFromLine(r, ln) ==
    LET raw == SplitAt(ln, COMMA)
    IN /\ Len(r) <= Len(raw)
       /\ \A i \in 1..Len(r) : r[i] = cleanField(raw[i])

\* The records come, in order and one per line, from some of the lines
RECURSIVE InLineOrder(_, _)
InLineOrder(recs, lns) ==
    IF recs = <<>> THEN TRUE
    ELSE IF lns = <<>> THEN FALSE
    ELSE \/ RecordFromLine(Head(recs), Head(lns)) /\ InLineOrder(Tail(recs), Tail(lns))
         \/ InLineOrder(recs, Tail(lns))

\* A first line with content gives the first record
HeaderFirst(recs, lns) ==
    (lns # <<>> /\ StripTrail(StripLead(Head(lns))) # <<>>)
        => (recs # <<>> /\ RecordFromLine(Head(recs), Head(lns)))

\* C5: each engine's output records follow the order of the input lines
\* they come from, none reordered or duplicated, the header line first,
\* and the i-th field of a record is cleanField of the line's i-th raw field.
C5_OrderPreserved ==
    /\ retBuffered = "true" =>
          /\ InLineOrder(RecordsOf(outBuffered.data), LinesOf(inputFile.data))
          /\ HeaderFirst(RecordsOf(outBuffered.data), LinesOf(inputFile.data))
    /\ retMapped = "true" =>
          /\ InLineOrder(RecordsOf(outMapped.data), LinesOf(inputFile.data))
          /\ HeaderFirst(RecordsOf(outMapped.data), LinesOf(inputFile.data))

C5_Witness ==
    /\ BothReturned
    /\ inputFile.data = <<DASH, COMMA, 97, LF, DASH>>
    /\ outBuffered.data = <<ZERO, COMMA, 97, LF, ZERO, LF>>
    /\ outMapped.data = outBuffered.data

----------------------------------------------------------------------------
(* C6: blank lines *)

\* Lines of plain data: no comma, no '\r', no '\n'
DataLines == SeqsUpTo(Letters \cup {DASH}, MaxFileLen - 3) \ {<<>>}

\* C6: for a blank line between two data lines x and y, processFile writes
\* the record "0" between the records of x and y, and
\* processFileMemoryMapped writes nothing for it.
C6_BlankLineDivergence ==
    BothReturned =>
        \A x \in DataLines, y \in DataLines :
            inputFile.data = x \o <<LF, LF>> \o y =>
                /\ outBuffered.data =
                       RefClean(x) \o <<LF>> \o <<ZERO, LF>> \o RefClean(y) \o <<LF>>
                /\ outMapped.data = RefClean(x) \o <<LF>> \o RefClean(y) \o <<LF>>

----------------------------------------------------------------------------
(* C7: output format *)

\* No '\r', and every record non-empty and ended by one '\n'
WellFormedOutput(out) ==
    /\ CountOf(out, CR) = 0
    /\ out # <<>> => (out[Len(out)] = LF /\ out[1] # LF)
    /\ \A i \in 1..(Len(out) - 1) : ~(out[i] = LF /\ out[i + 1] = LF)

\* C7 as claimed: for every input, what either engine has written is free
\* of '\r' and made of records each ended by exactly one '\n'.
C7_OutputFormat ==
    /\ (pc = "s_loop" \/ retBuffered = "true") => WellFormedOutput(outBuffered.data)
    /\ (pc = "m_loop" \/ retMapped = "true") => WellFormedOutput(outMapped.data)

\* C7 amended: the same, for every input in which no field keeps a '\r'
\* inside it once its surrounding whitespace is trimmed.
C7_OutputFormatNoInnerCR ==
    NoCRInsideField(inputFile.data) => C7_OutputFormat

C7_Witness ==
    /\ BothReturned
    /\ inputFile.data = <<97, CR, LF, DASH>>
    /\ outBuffered.data = <<97, LF, ZERO, LF>>
    /\ outMapped.data = <<97, LF, ZERO, LF>>

----------------------------------------------------------------------------
(* C8: input that cannot be opened *)

\* C8: when the input cannot be opened, each engine returns failure at its
\* open step, processes no line, and neither output path is created,
\* truncated or modified.
C8_OpenFailureLeavesOutput ==
    [][~inputFile.exists =>
          /\ outBuffered' = outBuffered
          /\ outMapped' = outMapped
          /\ lineCount' = 0
          /\ pc = "s_open_in" => (retBuffered' = "false" /\ pc' = "m_open")
          /\ pc = "m_open" => (retMapped' = "false" /\ pc' = "done")]_vars

C8_Witness ==
    /\ ~inputFile.exists
    /\ pc = "done"
    /\ retBuffered = "false"
    /\ retMapped = "false"
    /\ outBuffered = StaleOutput
    /\ outMapped = StaleOutput

----------------------------------------------------------------------------
(* C9: final line without a newline *)

\* A file of one line with content gives exactly the record of that line
OnlyHeader(out, F) ==
    (CountOf(F, LF) = 0 /\ StripTrail(StripLead(F)) # <<>>)
        => /\ Len(RecordsOf(out)) = 1
           /\ RecordFromLine(RecordsOf(out)[1], F)

\* C9: for an input F that does not end in '\n', each engine writes what it
\* writes for F followed by '\n', the last record ends in '\n', and a file
\* holding only a header line gives only the cleaned header.
C9_UnterminatedFinalLine ==
    LET F == inputFile.data
    IN (F # <<>> /\ F[Len(F)] # LF) =>
        /\ retBuffered = "true" =>
              /\ outBuffered.data = streamLoop(F \o <<LF>>, 0, <<>>)
              /\ outBuffered.data # <<>> => outBuffered.data[Len(outBuffered.data)] = LF
              /\ OnlyHeader(outBuffered.data, F)
        /\ retMapped = "true" =>
              /\ outMapped.data = mappedLoop(F \o <<LF>>, 0, <<>>)
              /\ outMapped.data # <<>> => outMapped.data[Len(outMapped.data)] = LF
              /\ OnlyHeader(outMapped.data, F)

C9_Witness ==
    /\ BothReturned
    /\ inputFile.data = <<97, LF, 97, COMMA, DASH>>
    /\ outBuffered.data = <<97, LF, 97, COMMA, ZERO, LF>>
    /\ outMapped.data = <<97, LF, 97, COMMA, ZERO, LF>>

----------------------------------------------------------------------------
(* C10: release of handles *)

AllReleased(hs) ==
    \A h \in hs : ~handles[h].open /\ handles[h].releases = handles[h].acquired

\* C10: when an engine has returned, on any path, every handle it acquired
\* is released; no handle is ever released twice or without being held.
C10_HandlesReleased ==
    /\ \A h \in HandleNames :
          /\ handles[h].acquired <= 1
          /\ handles[h].releases <= handles[h].acquired
          /\ handles[h].open => handles[h].releases = 0
    /\ retBuffered # "none" => AllReleased({"input", "output"})
    /\ retMapped # "none" => AllReleased({"fd", "map", "moutput"})

\* Both engines took the output-creation failure return
C10_Witness ==
    /\ pc = "done"
    /\ retBuffered = "false"
    /\ retMapped = "false"
    /\ handles["input"].releases = 1
    /\ handles["fd"].releases = 1
    /\ handles["map"].releases = 1

----------------------------------------------------------------------------
(* C11: the mapped-scan loop *)

\* An iteration of the scan loop has just run
ScanStep == pc = "m_loop" /\ lineCount' = lineCount + 1

\* C11: in every iteration of the scan loop start <= lineStart <= lineEnd
\* <= end, the '\r' check reads only inside [lineStart, lineEnd),
\* lineStart strictly increases, and at most (number of '\n' + 1)
\* iterations run; the loop exits with lineStart = end.  The distance
\* end - lineStart is a natural number that every iteration lowers, which
\* is what makes the loop terminate.
C11_ScanLoopBoundedAndTerminates ==
    /\ [](pc = "m_loop" =>
            /\ 0 <= lineStart /\ lineStart <= Len(inputFile.data)
            /\ lineCount <= CountOf(inputFile.data, LF) + 1)
    /\ [](retMapped = "true" =>
            /\ lineStart = Len(inputFile.data)
            /\ lineCount <= CountOf(inputFile.data, LF) + 1)
    /\ [][ScanStep =>
            /\ 0 <= lineStart /\ lineStart <= lineEnd'
            /\ lineEnd' <= Len(inputFile.data)
            /\ \A o \in scanReads' : lineStart <= o /\ o < lineEnd'
            /\ lineStart' > lineStart
            /\ lineStart' <= Len(inputFile.data)]_vars

\* A scan over a blank line, a "\r\n" line and an unterminated last line
C11_Witness ==
    /\ pc = "done"
    /\ retMapped = "true"
    /\ inputFile.data = <<LF, 97, CR, LF, 97>>
    /\ lineCount = 3
    /\ lineStart = 5

====
